---------------------------- MODULE Spec2Model ----------------------------
(***************************************************************************)
(* Model of the sanctuary chat panel's client-side cache and of its        *)
(* reply-chain enrichment:                                                 *)
(*   src/src/components/sanctuary/ChatMessageCache.ts                      *)
(*   src/src/components/sanctuary/ResizableChatPanel.tsx                   *)
(*                                                                         *)
(* Conventions.  An optional field is a sequence: <<>> when absent, <<v>>  *)
(* when present.  A Date is its epoch-millisecond integer; the ISO-8601    *)
(* string that toISOString() makes of it is the record [iso |-> ms], so a  *)
(* Date and its serialized form are different values.  localStorage is a   *)
(* function from keys to optional payloads; a key is the sequence of the   *)
(* pieces its template string concatenates.                                *)
(***************************************************************************)
EXTENDS Integers, Sequences, FiniteSets, TLC

VARIABLES
    store,      \* localStorage: key -> <<>> | <<payload>>
    now,        \* Date.now(), in ms since the start of the run
    failing,    \* the storage calls that throw at present
    last,       \* the last cache call: its arguments, result and whether it threw
    panel,      \* the mounted ResizableChatPanel: props, state, queued state
    seen,       \* per session: ids shown to the panel while it was the session
    moderation, \* history of the participant-state calls (for the claims)
    input,      \* enrichment inputs: [live, cached]
    output      \* <<>> or <<enrich(input)>>

vars == <<store, now, failing, last, panel, seen, moderation, input, output>>

----------------------------------------------------------------------------
(* Bounds and input domains *)

MaxTicks == 2       \* clock advances per run
MaxSave == 2        \* length of a list handed to saveMessages
MaxTs == 1          \* message timestamps range over 0..MaxTs
MaxChanges == 1     \* renders of the panel with changed props

Sessions == {"s1", "s2"}
Participants == {"p1"}
MsgIds == {"m1", "m2"}
Bodies ==
    {[senderAlias |-> "ann", content |-> "hi"],
     [senderAlias |-> "bob", content |-> "yo"]}

\* ChatMessageCache.ts:26-27
CACHE_KEY_PREFIX == "chat_messages_"
CACHE_EXPIRY == 24 * 60 * 60 * 1000
\* ChatMessageCache.ts:98 (the literal in getParticipantState)
STATE_EXPIRY == 60 * 60 * 1000

TickSteps == {STATE_EXPIRY, CACHE_EXPIRY}

\* How many clock advances produced time t (an hour step or a day step each).
TicksUsed(t) == (t \div CACHE_EXPIRY) + ((t % CACHE_EXPIRY) \div STATE_EXPIRY)

----------------------------------------------------------------------------
(* Dates and their serialization *)

toISOString(ms) == [iso |-> ms]
DateParse(s) == s.iso

----------------------------------------------------------------------------
(* localStorage *)

getCacheKey(sessionId) == <<CACHE_KEY_PREFIX, sessionId>>
stateKey(sessionId, participantId) ==
    <<"participant_state_", sessionId, "_", participantId>>
OtherKey == <<"other_app_setting">>

Keys ==
    {getCacheKey(s) : s \in Sessions}
        \cup {stateKey(s, p) : s \in Sessions, p \in Participants}
        \cup {OtherKey}

\* The ways storage can be failing: not at all, quota exceeded (setItem
\* throws), or storage unavailable (every access throws).
FaultModes == { {}, {"set"}, {"get", "set", "remove", "keys"} }

getItem(st, key) == st[key]
setItem(st, key, payload) == [st EXCEPT ![key] = <<payload>>]
removeItem(st, key) == [st EXCEPT ![key] = <<>>]

\* JSON.stringify of a MessageCache, as JSON.parse gives it back.
CacheRecord(sessionId, messages, t) ==
    [kind |-> "record", sessionId |-> sessionId, messages |-> messages,
     lastUpdated |-> toISOString(t)]

\* A call's outcome: the storage after it, what it returned, whether an
\* exception left it, and whether the returned value is not an array.
Outcome(st, ret, raised, bad) ==
    [store |-> st, ret |-> ret, raised |-> raised, bad |-> bad]

----------------------------------------------------------------------------
(* ChatMessageCacheManager: the session message record *)

\* ChatMessageCache.ts:110-112.  No try/catch: a throwing removeItem leaves it.
clearMessages(st, f, sessionId) ==
    IF "remove" \in f
    THEN Outcome(st, <<>>, TRUE, FALSE)
    ELSE Outcome(removeItem(st, getCacheKey(sessionId)), <<>>, FALSE, FALSE)

\* ChatMessageCache.ts:33-44
saveMessages(st, f, t, sessionId, messages) ==
    IF "set" \in f
    THEN Outcome(st, <<>>, FALSE, FALSE)
    ELSE Outcome(setItem(st, getCacheKey(sessionId),
                         CacheRecord(sessionId, messages, t)),
                 <<>>, FALSE, FALSE)

\* The expiry test with >= for >.
CacheExpiredAtLimit(cache, t) ==
    t - DateParse(cache.lastUpdated) >= CACHE_EXPIRY

\* The expiry test of loadMessages, ChatMessageCache.ts:54-55
CacheExpired(cache, t) == t - DateParse(cache.lastUpdated) > CACHE_EXPIRY

\* ChatMessageCache.ts:46-65
loadMessages(st, f, t, sessionId) ==
    IF "get" \in f THEN Outcome(st, <<>>, FALSE, FALSE)
    ELSE LET cacheData == getItem(st, getCacheKey(sessionId)) IN
      IF cacheData = <<>> THEN Outcome(st, <<>>, FALSE, FALSE)
      ELSE LET cache == cacheData[1] IN
        IF cache.kind = "unparseable" THEN Outcome(st, <<>>, FALSE, FALSE)
        ELSE IF CacheExpired(cache, t)
        THEN LET c == clearMessages(st, f, sessionId) IN
             \* an exception of clearMessages is caught here
             Outcome(c.store, <<>>, FALSE, FALSE)
        ELSE IF cache.kind = "badShape"
        THEN Outcome(st, <<>>, FALSE, TRUE)
        ELSE Outcome(st, cache.messages, FALSE, FALSE)

\* existingMessages.find(m => m.id === message.id), ChatMessageCache.ts:69
HasId(messages, id) == \E i \in 1..Len(messages) : messages[i].id = id

\* addMessage without its test for an existing id.
addMessageAlways(st, f, t, sessionId, message) ==
    LET l == loadMessages(st, f, t, sessionId) IN
    IF l.bad THEN Outcome(l.store, <<>>, TRUE, FALSE)
    ELSE saveMessages(l.store, f, t, sessionId, Append(l.ret, message))

\* ChatMessageCache.ts:67-75.  No try/catch: find on a value that is not
\* an array throws out of addMessage.
addMessage(st, f, t, sessionId, message) ==
    LET l == loadMessages(st, f, t, sessionId) IN
    IF l.bad THEN Outcome(l.store, <<>>, TRUE, FALSE)
    ELSE IF ~HasId(l.ret, message.id)
    THEN saveMessages(l.store, f, t, sessionId, Append(l.ret, message))
    ELSE Outcome(l.store, <<>>, FALSE, FALSE)

\* ChatMessageCache.ts:114-118.  No try/catch.
clearAllCache(st, f) ==
    IF "keys" \in f THEN Outcome(st, <<>>, TRUE, FALSE)
    ELSE LET hit == {k \in Keys : st[k] # <<>> /\ k[1] = CACHE_KEY_PREFIX} IN
         IF hit # {} /\ "remove" \in f THEN Outcome(st, <<>>, TRUE, FALSE)
         ELSE Outcome([k \in Keys |-> IF k \in hit THEN <<>> ELSE st[k]],
                      <<>>, FALSE, FALSE)

----------------------------------------------------------------------------
(* ChatMessageCacheManager: participant moderation state *)

EmptyState == [isMuted |-> <<>>, isKicked |-> <<>>, lastUpdated |-> <<>>]

\* A merge that forgets the stored flags: { ...state, lastUpdated }.
MergeStateOverwrite(currentState, state, t) ==
    [kind |-> "record", isMuted |-> state.isMuted, isKicked |-> state.isKicked,
     lastUpdated |-> <<t>>]

\* { ...currentState, ...state, lastUpdated: Date.now() }, ChatMessageCache.ts:81
MergeState(currentState, state, t) ==
    [kind |-> "record",
     isMuted |-> IF state.isMuted # <<>> THEN state.isMuted
                 ELSE currentState.isMuted,
     isKicked |-> IF state.isKicked # <<>> THEN state.isKicked
                  ELSE currentState.isKicked,
     lastUpdated |-> <<t>>]

\* ChatMessageCache.ts:77-86.  The stored state is read raw: its age is
\* not looked at.
updateParticipantState(st, f, t, sessionId, participantId, state) ==
    IF "get" \in f THEN Outcome(st, <<>>, FALSE, FALSE)
    ELSE LET raw == getItem(st, stateKey(sessionId, participantId)) IN
      IF raw # <<>> /\ raw[1].kind = "unparseable"
      THEN Outcome(st, <<>>, FALSE, FALSE)
      ELSE LET currentState == IF raw = <<>> THEN EmptyState ELSE raw[1] IN
        IF "set" \in f THEN Outcome(st, <<>>, FALSE, FALSE)
        ELSE Outcome(setItem(st, stateKey(sessionId, participantId),
                             MergeState(currentState, state, t)),
                     <<>>, FALSE, FALSE)

\* The expiry test of getParticipantState, ChatMessageCache.ts:95-98
StateExpired(parsed, t) ==
    t - (IF parsed.lastUpdated = <<>> THEN 0 ELSE parsed.lastUpdated[1])
        > STATE_EXPIRY

\* ChatMessageCache.ts:88-108
getParticipantState(st, f, t, sessionId, participantId) ==
    IF "get" \in f THEN Outcome(st, <<EmptyState>>, FALSE, FALSE)
    ELSE LET state == getItem(st, stateKey(sessionId, participantId)) IN
      IF state = <<>> THEN Outcome(st, <<EmptyState>>, FALSE, FALSE)
      ELSE LET parsed == state[1] IN
        IF parsed.kind = "unparseable"
        THEN Outcome(st, <<EmptyState>>, FALSE, FALSE)
        ELSE IF StateExpired(parsed, t)
        THEN IF "remove" \in f
             THEN Outcome(st, <<EmptyState>>, FALSE, FALSE)
             ELSE Outcome(removeItem(st, stateKey(sessionId, participantId)),
                          <<EmptyState>>, FALSE, FALSE)
        ELSE Outcome(st,
                     <<[isMuted |-> parsed.isMuted, isKicked |-> parsed.isKicked,
                        lastUpdated |-> parsed.lastUpdated]>>,
                     FALSE, FALSE)

----------------------------------------------------------------------------
(* ResizableChatPanel: the enrichment pass *)

\* interface ChatMessage, ResizableChatPanel.tsx:12-28 (timestamp a Date);
\* interface CachedMessage, ChatMessageCache.ts:2-17 (timestamp a string).
ChatMessage(id, body, ts, replyTo, replyToMessage) ==
    [id |-> id, senderAlias |-> body.senderAlias, content |-> body.content,
     timestamp |-> ts, replyTo |-> replyTo, replyToMessage |-> replyToMessage]

\* { ...cached, timestamp: new Date(cached.timestamp) }, ResizableChatPanel.tsx:78-81
ToChat(cached) == [cached EXCEPT !.timestamp = DateParse(cached.timestamp)]

\* { ...msg, timestamp: msg.timestamp.toISOString() }, ResizableChatPanel.tsx:111-114
ToCached(msg) == [msg EXCEPT !.timestamp = toISOString(msg.timestamp)]

\* The union step without its id test: every cached message is appended.
RECURSIVE MergeCachedNoTest(_, _)
MergeCachedNoTest(allMessages, cachedMessages) ==
    IF cachedMessages = <<>> THEN allMessages
    ELSE MergeCachedNoTest(Append(allMessages, ToChat(Head(cachedMessages))),
                           Tail(cachedMessages))

\* The union step, ResizableChatPanel.tsx:75-83: live first, then every
\* cached message whose id is not yet in allMessages.
RECURSIVE MergeCached(_, _)
MergeCached(allMessages, cachedMessages) ==
    IF cachedMessages = <<>> THEN allMessages
    ELSE LET cached == Head(cachedMessages) IN
         MergeCached(IF HasId(allMessages, cached.id) THEN allMessages
                     ELSE Append(allMessages, ToChat(cached)),
                     Tail(cachedMessages))

\* messageMap.get(id) after allMessages.forEach(msg => messageMap.set(msg.id, msg)),
\* ResizableChatPanel.tsx:86,91: the last message set under the id.
MapGet(allMessages, id) ==
    allMessages[CHOOSE i \in 1..Len(allMessages) :
                    /\ allMessages[i].id = id
                    /\ \A j \in (i + 1)..Len(allMessages) : allMessages[j].id # id]

\* The replyToMessage literal, ResizableChatPanel.tsx:94-99
Snapshot(replyToMsg) ==
    [id |-> replyToMsg.id, senderAlias |-> replyToMsg.senderAlias,
     content |-> replyToMsg.content,
     timestamp |-> toISOString(replyToMsg.timestamp)]

\* The map callback, had it dropped a snapshot it cannot resolve.
EnhanceDropUnresolved(allMessages, msg) ==
    IF msg.replyTo # <<>> /\ HasId(allMessages, msg.replyTo[1])
    THEN [msg EXCEPT !.replyToMessage =
                        <<Snapshot(MapGet(allMessages, msg.replyTo[1]))>>]
    ELSE [msg EXCEPT !.replyToMessage = <<>>]

\* The map callback, ResizableChatPanel.tsx:89-103
Enhance(allMessages, msg) ==
    IF msg.replyTo # <<>> /\ HasId(allMessages, msg.replyTo[1])
    THEN [msg EXCEPT !.replyToMessage =
                        <<Snapshot(MapGet(allMessages, msg.replyTo[1]))>>]
    ELSE msg

\* An insertion that puts msg before the elements of equal timestamp.
RECURSIVE InsertByTimeUnstable(_, _)
InsertByTimeUnstable(sorted, msg) ==
    IF sorted = <<>> THEN <<msg>>
    ELSE IF Head(sorted).timestamp - msg.timestamp < 0
    THEN <<Head(sorted)>> \o InsertByTimeUnstable(Tail(sorted), msg)
    ELSE <<msg>> \o sorted

\* One insertion of a stable ascending sort: msg goes after every element
\* that does not compare greater (a.timestamp - b.timestamp <= 0).
RECURSIVE InsertByTime(_, _)
InsertByTime(sorted, msg) ==
    IF sorted = <<>> THEN <<msg>>
    ELSE IF Head(sorted).timestamp - msg.timestamp <= 0
    THEN <<Head(sorted)>> \o InsertByTime(Tail(sorted), msg)
    ELSE <<msg>> \o sorted

\* enhanced.sort((a, b) => a.timestamp.getTime() - b.timestamp.getTime()),
\* ResizableChatPanel.tsx:105 (Array.prototype.sort is stable).
RECURSIVE SortByTime(_)
SortByTime(enhanced) ==
    IF enhanced = <<>> THEN <<>>
    ELSE InsertByTime(SortByTime(SubSeq(enhanced, 1, Len(enhanced) - 1)),
                      enhanced[Len(enhanced)])

\* The body of the enrichment effect, ResizableChatPanel.tsx:70-106, as a
\* function of the live list and of what loadMessages returned.
Enrich(messages, cachedMessages) ==
    LET allMessages == MergeCached(messages, cachedMessages)
        enhanced == [i \in 1..Len(allMessages) |->
                        Enhance(allMessages, allMessages[i])]
    IN SortByTime(enhanced)

----------------------------------------------------------------------------
(* Input domains of the enrichment pass *)

\* A reply snapshot that came with the input (from the transport, or from
\* an earlier enrichment kept in the cache); its content matches no body.
PriorSnapshot(id) ==
    [id |-> id, senderAlias |-> "ann", content |-> "old",
     timestamp |-> toISOString(0)]

\* replyTo / replyToMessage as they can arrive: no reply; a reply to
\* another message, with or without a snapshot.
ReplyForms(id) ==
    {<< <<>>, <<>> >>}
        \cup {<< <<r>>, <<>> >> : r \in MsgIds \ {id}}
        \cup {<< <<r>>, <<PriorSnapshot(r)>> >> : r \in MsgIds \ {id}}

ChatMessages ==
    {ChatMessage(id, b, ts, rf[1], rf[2]) :
        id \in MsgIds, b \in Bodies, ts \in 0..MaxTs,
        rf \in UNION {ReplyForms(i) : i \in MsgIds}}

\* Messages as the transport delivers them: a message does not reply to itself.
LiveMessages ==
    {m \in ChatMessages : m.replyTo = <<>> \/ m.replyTo[1] # m.id}

\* Lists of messages of S with pairwise different ids (Message.id is unique).
ListsOf(S) ==
    {<<>>} \cup {<<m>> : m \in S}
        \cup {p \in {<<m, n>> : m \in S, n \in S} : p[1].id # p[2].id}

LiveLists == ListsOf(LiveMessages)
CachedLists == ListsOf({ToCached(m) : m \in LiveMessages})

----------------------------------------------------------------------------
(* Values of the variables a specification does not use *)

EmptyStore ==
    [k \in Keys |-> IF k = OtherKey THEN <<[kind |-> "other"]>> ELSE <<>>]

NoCall ==
    [op |-> "none", sessionId |-> "", arg |-> <<>>, at |-> 0,
     pre |-> <<>>, ret |-> <<>>, raised |-> FALSE]

Unmounted ==
    [mounted |-> FALSE, sessionId |-> "", messages |-> <<>>,
     enhancedMessages |-> <<>>, pending |-> <<>>,
     loaded |-> <<>>, written |-> <<>>, changes |-> 0]

NoInput == [live |-> <<>>, cached |-> <<>>]

Flags == {"isMuted", "isKicked"}

\* Per flag, the last call that supplied it (value and time); and the state
\* a call sequence gives when each update merges over what
\* getParticipantState would have returned at that moment.
NoModeration ==
    [supplied |-> [f \in Flags |-> <<>>], merged |-> [f \in Flags |-> <<>>]]

----------------------------------------------------------------------------
(* The enrichment pass on its own: every live list against every cached list *)

InitEnrich ==
    /\ store = EmptyStore
    /\ now = 0
    /\ failing = {}
    /\ last = NoCall
    /\ panel = Unmounted
    /\ seen = [s \in Sessions |-> {}]
    /\ moderation = NoModeration
    /\ input \in [live : LiveLists, cached : CachedLists]
    /\ output = <<>>

RunEnrich ==
    /\ output = <<>>
    /\ output' = <<Enrich(input.live, input.cached)>>
    /\ UNCHANGED <<store, now, failing, last, panel, seen, moderation, input>>

NextEnrich == RunEnrich

SpecEnrich == InitEnrich /\ [][NextEnrich]_vars

----------------------------------------------------------------------------
(* Yardsticks of the enrichment claims, stated from the inputs alone *)

IdsOf(seq) == {seq[i].id : i \in 1..Len(seq)}

IsLive(id) == id \in IdsOf(input.live)

\* The version of message id in the union: the live one when there is one.
UnionMsg(id) ==
    IF IsLive(id)
    THEN input.live[CHOOSE k \in 1..Len(input.live) : input.live[k].id = id]
    ELSE ToChat(input.cached[CHOOSE k \in 1..Len(input.cached) :
                                 input.cached[k].id = id])

\* Where message id stands in the union: live messages in live order, then
\* the cache-only messages in cache order.
UnionPos(id) ==
    IF IsLive(id)
    THEN CHOOSE k \in 1..Len(input.live) : input.live[k].id = id
    ELSE Len(input.live)
         + Cardinality({j \in 1..Len(input.cached) :
               /\ ~IsLive(input.cached[j].id)
               /\ j <= CHOOSE k \in 1..Len(input.cached) :
                           input.cached[k].id = id})

UnionIds == IdsOf(input.live) \cup IdsOf(input.cached)

Resolved(m) == m.replyTo # <<>> /\ m.replyTo[1] \in UnionIds

ExpectedSnapshot(m) ==
    LET ref == UnionMsg(m.replyTo[1]) IN
    [id |-> ref.id, senderAlias |-> ref.senderAlias, content |-> ref.content,
     timestamp |-> toISOString(ref.timestamp)]

WithoutSnapshot(m) == [m EXCEPT !.replyToMessage = <<>>]

----------------------------------------------------------------------------
(* Claims about the enrichment pass (SpecEnrich) *)

\* C1: the enriched output holds exactly one entry per id of the live or
\* the cached list, and an id that is in both lists shows the live
\* message's fields, not the cached ones.
C1_DedupUnionLivePrecedence ==
    output # <<>> =>
        LET out == output[1] IN
        /\ IdsOf(out) = UnionIds
        /\ \A i, j \in 1..Len(out) : out[i].id = out[j].id => i = j
        /\ \A i \in 1..Len(out) : \A k \in 1..Len(input.live) :
               out[i].id = input.live[k].id
                   => WithoutSnapshot(out[i]) = WithoutSnapshot(input.live[k])

\* C1 witness: enrichment ran on a live and a cached list that hold the
\* same id with different fields.
C1_Witness ==
    /\ output # <<>>
    /\ \E k \in 1..Len(input.live) : \E c \in 1..Len(input.cached) :
           /\ input.live[k].id = input.cached[c].id
           /\ WithoutSnapshot(input.live[k])
                  # WithoutSnapshot(ToChat(input.cached[c]))

C8_ChronologicalStable ==
    output # <<>> =>
        LET out == output[1] IN
        /\ IdsOf(out) = UnionIds
        /\ Len(out) = Cardinality(UnionIds)
        /\ \A i \in 1..Len(out) :
               WithoutSnapshot(out[i]) = WithoutSnapshot(UnionMsg(out[i].id))
        /\ \A i, j \in 1..Len(out) :
               i < j =>
                   /\ out[i].timestamp <= out[j].timestamp
                   /\ out[i].timestamp = out[j].timestamp
                          => UnionPos(out[i].id) < UnionPos(out[j].id)

\* C8 witness: the sort moved a later union message before an earlier one.
C8_Witness ==
    /\ output # <<>>
    /\ Len(output[1]) = 2
    /\ UnionPos(output[1][1].id) = 2
    /\ output[1][1].timestamp < output[1][2].timestamp

----------------------------------------------------------------------------
(* Calls of the cache, one action per method *)

\* Inputs of the calls.
StoreMessages ==
    {ToCached(ChatMessage(id, b, 0, <<>>, <<>>)) : id \in MsgIds, b \in Bodies}

SaveLists ==
    UNION {[1..n -> StoreMessages] : n \in 0..MaxSave}

Partials ==
    [isMuted : {<<>>, <<TRUE>>, <<FALSE>>},
     isKicked : {<<>>, <<TRUE>>, <<FALSE>>}]

\* The session whose record the calls are about (a call touches the key
\* of its own session only), and the moderated participant.
CallSessions == {"s1"}
ModSession == "s1"
ModParticipant == "p1"

Call(op, sessionId, arg, pre, o) ==
    [op |-> op, sessionId |-> sessionId, arg |-> arg, at |-> now,
     pre |-> pre, ret |-> o.ret, raised |-> o.raised]

\* The clock moves on by an hour or by a day.
Tick ==
    /\ TicksUsed(now) < MaxTicks
    /\ \E d \in TickSteps : now' = now + d
    /\ UNCHANGED <<store, failing, last, panel, seen, moderation, input, output>>

CallSaveMessages ==
    \E s \in CallSessions, ms \in SaveLists :
        LET o == saveMessages(store, failing, now, s, ms) IN
        /\ store' = o.store
        /\ last' = Call("saveMessages", s, <<>>, <<>>, o)
        /\ UNCHANGED <<now, failing, panel, seen, moderation, input, output>>

CallLoadMessages ==
    \E s \in CallSessions :
        LET o == loadMessages(store, failing, now, s) IN
        /\ ~o.bad
        /\ store' = o.store
        /\ last' = Call("loadMessages", s, <<>>, store[getCacheKey(s)], o)
        /\ UNCHANGED <<now, failing, panel, seen, moderation, input, output>>

CallAddMessage ==
    \E s \in CallSessions, m \in StoreMessages :
        LET o == addMessage(store, failing, now, s, m) IN
        /\ store' = o.store
        /\ last' = Call("addMessage", s, <<m>>, store[getCacheKey(s)], o)
        /\ UNCHANGED <<now, failing, panel, seen, moderation, input, output>>

CallClearMessages ==
    \E s \in CallSessions :
        LET o == clearMessages(store, failing, s) IN
        /\ store' = o.store
        /\ last' = Call("clearMessages", s, <<>>, <<>>, o)
        /\ UNCHANGED <<now, failing, panel, seen, moderation, input, output>>

CallClearAllCache ==
    LET o == clearAllCache(store, failing) IN
    /\ store' = o.store
    /\ last' = Call("clearAllCache", "", <<>>, <<>>, o)
    /\ UNCHANGED <<now, failing, panel, seen, moderation, input, output>>

\* What getParticipantState would return now, as flags.
FlagsNow(st, f, t) ==
    LET r == getParticipantState(st, f, t, ModSession, ModParticipant).ret[1]
    IN [isMuted |-> r.isMuted, isKicked |-> r.isKicked]

\* updateParticipantState, and the history of the calls kept with it.
CallUpdateParticipantState ==
    \E state \in Partials :
        LET o == updateParticipantState(store, failing, now,
                                        ModSession, ModParticipant, state)
            base == FlagsNow(store, failing, now)
        IN
        /\ store' = o.store
        /\ last' = Call("updateParticipantState", ModSession, <<>>, <<>>, o)
        /\ moderation' =
               [supplied |-> [f \in Flags |->
                    IF state[f] # <<>> THEN <<[value |-> state[f][1], at |-> now]>>
                    ELSE moderation.supplied[f]],
                merged |-> [f \in Flags |->
                    IF state[f] # <<>> THEN state[f] ELSE base[f]]]
        /\ UNCHANGED <<now, failing, panel, seen, input, output>>

\* updateParticipantState while storage may fail (no history is kept).
CallUpdateParticipantStateFaulty ==
    \E state \in Partials :
        LET o == updateParticipantState(store, failing, now,
                                        ModSession, ModParticipant, state)
        IN
        /\ store' = o.store
        /\ last' = Call("updateParticipantState", ModSession, <<>>, <<>>, o)
        /\ UNCHANGED <<now, failing, panel, seen, moderation, input, output>>

CallGetParticipantState ==
    LET o == getParticipantState(store, failing, now, ModSession, ModParticipant)
    IN
    /\ store' = o.store
    /\ last' = Call("getParticipantState", ModSession, <<>>, <<>>, o)
    /\ UNCHANGED <<now, failing, panel, seen, moderation, input, output>>

----------------------------------------------------------------------------
(* The session message record under its calls and the clock *)

Init ==
    /\ store = EmptyStore
    /\ now = 0
    /\ failing = {}
    /\ last = NoCall
    /\ panel = Unmounted
    /\ seen = [s \in Sessions |-> {}]
    /\ moderation = NoModeration
    /\ input = NoInput
    /\ output = <<>>

Next ==
    \/ Tick
    \/ CallSaveMessages
    \/ CallLoadMessages
    \/ CallAddMessage
    \/ CallClearMessages
    \/ CallClearAllCache

Spec == Init /\ [][Next]_vars

(* The participant state under its calls and the clock *)

NextParticipant ==
    \/ Tick
    \/ CallUpdateParticipantState
    \/ CallGetParticipantState

SpecParticipant == Init /\ [][NextParticipant]_vars

(* Every cache method while storage may fail or hold a malformed payload *)

\* Storage starts or stops failing.
SetFailing ==
    /\ \E f \in FaultModes : failing' = f
    /\ failing' # failing
    /\ UNCHANGED <<store, now, last, panel, seen, moderation, input, output>>

\* Something else writes a payload the cache cannot read into one of its
\* keys: text that is no JSON, or a cache object whose messages is no array.
Tamper ==
    /\ \/ \E s \in CallSessions :
              \E payload \in {[kind |-> "unparseable"],
                              [kind |-> "badShape",
                               lastUpdated |-> toISOString(now)]} :
                  store' = setItem(store, getCacheKey(s), payload)
       \/ store' = setItem(store, stateKey(ModSession, ModParticipant),
                           [kind |-> "unparseable"])
    /\ UNCHANGED <<now, failing, last, panel, seen, moderation, input, output>>

\* A caller of loadMessages that gets a value that is no array.
CallLoadMessagesBad ==
    \E s \in CallSessions :
        LET o == loadMessages(store, failing, now, s) IN
        /\ o.bad
        /\ store' = o.store
        /\ last' = Call("loadMessages", s, <<>>, <<>>, o)
        /\ UNCHANGED <<now, failing, panel, seen, moderation, input, output>>

NextFault ==
    \/ SetFailing
    \/ Tamper
    \/ CallSaveMessages
    \/ CallLoadMessages
    \/ CallLoadMessagesBad
    \/ CallAddMessage
    \/ CallClearMessages
    \/ CallClearAllCache
    \/ CallUpdateParticipantStateFaulty
    \/ CallGetParticipantState

SpecFault == Init /\ [][NextFault]_vars

----------------------------------------------------------------------------
(* ResizableChatPanel: the two effects and the renders that run them *)

\* The enrichment effect, ResizableChatPanel.tsx:70-106: what it leaves in
\* storage (loadMessages drops an expired record), what it hands to
\* setEnhancedMessages, and what loadMessages returned.
EnrichEffect(st, f, t, sessionId, messages) ==
    LET l == loadMessages(st, f, t, sessionId) IN
    [store |-> l.store, enhanced |-> Enrich(messages, l.ret), loaded |-> l.ret]

\* A cache-write effect that stops after the first message.
CacheWriteEffectFirstOnly(st, f, t, sessionId, enhancedMessages) ==
    IF enhancedMessages = <<>> THEN st
    ELSE addMessage(st, f, t, sessionId, ToCached(Head(enhancedMessages))).store

\* The cache-write effect, ResizableChatPanel.tsx:109-116: addMessage for
\* each message of enhancedMessages, in order.
RECURSIVE CacheWriteEffect(_, _, _, _, _)
CacheWriteEffect(st, f, t, sessionId, enhancedMessages) ==
    IF enhancedMessages = <<>> THEN st
    ELSE CacheWriteEffect(
             addMessage(st, f, t, sessionId,
                        ToCached(Head(enhancedMessages))).store,
             f, t, sessionId, Tail(enhancedMessages))

\* The live messages the parent passes in the messages prop: m1 in two
\* versions, and m2, a reply to m1 sent at the same time or later.
PanelMessages ==
    {m \in LiveMessages :
        /\ m.replyToMessage = <<>>
        /\ m.id = "m1" => (m.replyTo = <<>> /\ m.timestamp = 0)
        /\ m.id = "m2" => (m.replyTo = <<"m1">> /\ m.content = "hi"
                              /\ m.timestamp \in {0, 1})}

PanelLists == ListsOf(PanelMessages)

\* First render and commit, ResizableChatPanel.tsx:67-116: enhancedMessages
\* is [], both effects run; the enrichment effect queues its result and the
\* cache-write effect has nothing to write.
Mount ==
    /\ ~panel.mounted
    /\ \E sessionId \in Sessions, messages \in PanelLists :
           LET e == EnrichEffect(store, failing, now, sessionId, messages) IN
           /\ store' = CacheWriteEffect(e.store, failing, now, sessionId, <<>>)
           /\ panel' = [mounted |-> TRUE, sessionId |-> sessionId,
                        messages |-> messages, enhancedMessages |-> <<>>,
                        pending |-> <<e.enhanced>>, loaded |-> e.loaded,
                        written |-> <<>>, changes |-> 0]
           /\ seen' = [seen EXCEPT ![sessionId] =
                           @ \cup IdsOf(messages) \cup IdsOf(e.loaded)]
    /\ UNCHANGED <<now, failing, last, moderation, input, output>>

\* The render that setEnhancedMessages asked for: the props are the same,
\* so only the cache-write effect runs (deps [enhancedMessages, sessionId]).
Rerender ==
    /\ panel.mounted
    /\ panel.pending # <<>>
    /\ store' = CacheWriteEffect(store, failing, now, panel.sessionId,
                                 panel.pending[1])
    /\ panel' = [panel EXCEPT
                    !.enhancedMessages = panel.pending[1],
                    !.pending = <<>>,
                    !.written = loadMessages(store, failing, now,
                                             panel.sessionId).ret]
    /\ UNCHANGED <<now, failing, last, seen, moderation, input, output>>

\* The parent renders the panel with another sessionId, another messages
\* array, or both.  A queued setEnhancedMessages is applied in this render.
\* The enrichment effect runs (one of its deps changed) and queues its
\* result; then the cache-write effect runs if sessionId or enhancedMessages
\* changed, with the enhancedMessages of this render and the new sessionId.
PropsChange ==
    /\ panel.mounted
    /\ panel.changes < MaxChanges
    /\ \E sessionId \in Sessions, messages \in PanelLists, sameArray \in BOOLEAN :
           LET rendered == IF panel.pending # <<>> THEN panel.pending[1]
                           ELSE panel.enhancedMessages
               e == EnrichEffect(store, failing, now, sessionId, messages)
               writes == sessionId # panel.sessionId \/ panel.pending # <<>>
           IN
           /\ sameArray => messages = panel.messages
           /\ sessionId # panel.sessionId \/ ~sameArray
           /\ store' = IF writes
                       THEN CacheWriteEffect(e.store, failing, now,
                                             sessionId, rendered)
                       ELSE e.store
           /\ panel' = [panel EXCEPT
                           !.sessionId = sessionId,
                           !.messages = messages,
                           !.enhancedMessages = rendered,
                           !.pending = <<e.enhanced>>,
                           !.loaded = e.loaded,
                           !.changes = @ + 1]
           /\ seen' = [seen EXCEPT ![sessionId] =
                           @ \cup IdsOf(messages) \cup IdsOf(e.loaded)]
    /\ UNCHANGED <<now, failing, last, moderation, input, output>>

\* The panel is mounted on a browser whose storage is empty or holds the
\* record an earlier visit of session s1 wrote, at once or 25 hours later.
OldRecord ==
    CacheRecord("s1", <<ToCached(ChatMessage("m1", [senderAlias |-> "ann",
                                                   content |-> "hi"],
                                            0, <<>>, <<>>))>>, 0)

InitPanel ==
    /\ \E old \in BOOLEAN :
           /\ store = IF old
                      THEN setItem(EmptyStore, getCacheKey("s1"), OldRecord)
                      ELSE EmptyStore
           /\ seen = [s \in Sessions |->
                         IF old /\ s = "s1" THEN {"m1"} ELSE {}]
    /\ now \in {0, CACHE_EXPIRY + STATE_EXPIRY}
    /\ failing = {}
    /\ last = NoCall
    /\ panel = Unmounted
    /\ moderation = NoModeration
    /\ input = NoInput
    /\ output = <<>>

NextPanel ==
    \/ Mount
    \/ Rerender
    \/ PropsChange

SpecPanel == InitPanel /\ [][NextPanel]_vars

----------------------------------------------------------------------------
(* Claims about the cache *)

\* The messages of a session's record, <<>> when there is none.
Stored(st, sessionId) ==
    LET d == st[getCacheKey(sessionId)] IN
    IF d = <<>> THEN <<>> ELSE d[1].messages

\* The record of a session, when there is one no older than 24 hours.
WithinWindow(st, sessionId, t) ==
    LET d == st[getCacheKey(sessionId)] IN
    d # <<>> /\ t - d[1].lastUpdated.iso <= 24 * 60 * 60 * 1000

\* C3: in every reachable store, adding a message twice in a row leaves the
\* session's stored sequence as adding it once does, and adding a message
\* whose id is in the record changes nothing.
C3_IdempotentAdd ==
    \A s \in CallSessions : \A m \in StoreMessages :
        LET once == addMessage(store, failing, now, s, m)
            twice == addMessage(once.store, failing, now, s, m)
        IN
        /\ Stored(twice.store, s) = Stored(once.store, s)
        /\ (WithinWindow(store, s, now) /\ m.id \in IdsOf(Stored(store, s)))
               => once.store = store

\* C3 witness: addMessage was called with an id the record held, after the
\* record was built by an addMessage, and the record is as it was.
C3_Witness ==
    /\ last.op = "addMessage"
    /\ last.pre # <<>>
    /\ last.arg[1].id \in IdsOf(last.pre[1].messages)
    /\ last.arg[1] \notin {last.pre[1].messages[i] :
                              i \in 1..Len(last.pre[1].messages)}
    /\ store[getCacheKey(last.sessionId)] = last.pre

\* C4: a loadMessages that finds a record older than 24 hours returns []
\* and leaves no record; one that finds a record of 24 hours or less
\* returns its messages and leaves the whole record as it was.
C4_LazyExpiryOnRead ==
    (last.op = "loadMessages" /\ last.pre # <<>>) =>
        LET elapsed == last.at - last.pre[1].lastUpdated.iso
            key == getCacheKey(last.sessionId)
        IN
        /\ elapsed > 24 * 60 * 60 * 1000
               => /\ last.ret = <<>>
                  /\ store[key] = <<>>
                  /\ loadMessages(store, failing, now, last.sessionId).ret = <<>>
        /\ elapsed <= 24 * 60 * 60 * 1000
               => /\ last.ret = last.pre[1].messages
                  /\ store[key] = last.pre

\* C4 witness: loadMessages met a record with messages that was more than
\* 24 hours old.
C4_Witness ==
    /\ last.op = "loadMessages"
    /\ last.pre # <<>>
    /\ last.pre[1].messages # <<>>
    /\ last.at - last.pre[1].lastUpdated.iso > 24 * 60 * 60 * 1000
    /\ last.ret = <<>>

\* C6 as stated: no call of the cache lets an exception out.
C6_NoCallRaises == ~last.raised

\* C7: for each flag, when the last updateParticipantState that supplied it
\* was made no more than one hour ago, getParticipantState returns the
\* value that call supplied.
C7_ParticipantStateMerge ==
    \A f \in Flags :
        LET sup == moderation.supplied[f] IN
        (sup # <<>> /\ now - sup[1].at <= 60 * 60 * 1000)
            => FlagsNow(store, failing, now)[f] = <<sup[1].value>>

\* C7 witness: getParticipantState returned isMuted and isKicked both
\* true, each supplied by a different call.
C7_Witness ==
    /\ last.op = "getParticipantState"
    /\ last.ret[1].isMuted = <<TRUE>>
    /\ last.ret[1].isKicked = <<TRUE>>
    /\ moderation.supplied["isMuted"][1].at < moderation.supplied["isKicked"][1].at

\* C10 as stated: an update merges over what getParticipantState would
\* return at that moment, so getParticipantState never reports a flag
\* that such a sequence of merges does not hold.
C10_ExpiredFlagsNotRevived ==
    \A f \in Flags :
        FlagsNow(store, failing, now)[f] # <<>>
            => FlagsNow(store, failing, now)[f] = moderation.merged[f]

----------------------------------------------------------------------------
(* Claims about the panel (SpecPanel) *)

\* The panel has rendered the view its enrichment effect computed and the
\* cache-write effect has run on it; the session's record has not expired.
ViewPersisted ==
    /\ panel.mounted
    /\ panel.pending = <<>>
    /\ LET d == store[getCacheKey(panel.sessionId)] IN
       d = <<>> \/ WithinWindow(store, panel.sessionId, now)

\* What a reload shows: the enrichment pass on an empty live list.
Reloaded ==
    Enrich(<<>>, loadMessages(store, failing, now, panel.sessionId).ret)

\* C5 as stated: once the panel has persisted its enriched view, loading
\* the record and enriching with an empty live list gives that view again,
\* whatever the cache held before.
C5_ReloadReproducesView ==
    ViewPersisted => Reloaded = panel.enhancedMessages

\* Every entry of the loaded record that has the id of a live message is
\* the view's message of that id, serialized.
SharedEntriesAgree ==
    \A i \in 1..Len(panel.loaded) : \A j \in 1..Len(panel.enhancedMessages) :
        (/\ panel.loaded[i].id \in IdsOf(panel.messages)
         /\ panel.loaded[i].id = panel.enhancedMessages[j].id)
            => panel.loaded[i] = ToCached(panel.enhancedMessages[j])

DistinctTimes(seq) ==
    \A i, j \in 1..Len(seq) : seq[i].timestamp = seq[j].timestamp => i = j

\* C5 amended: the reload gives the persisted view again provided that the
\* record held, when the cache-write effect ran, what the view was enriched
\* from, that each of its entries with the id of a live message equals the
\* view's message of that id, and that no two messages of the view have
\* the same timestamp.
C5_ReloadReproducesViewIfCacheAgrees ==
    (/\ ViewPersisted
     /\ panel.written = panel.loaded
     /\ SharedEntriesAgree
     /\ DistinctTimes(panel.enhancedMessages))
        => Reloaded = panel.enhancedMessages

\* C5 witness: a view of two messages, one from the cache alone and one a
\* live reply carrying its snapshot, was persisted over a record that held
\* an entry already.
C5_Witness ==
    /\ ViewPersisted
    /\ panel.written = panel.loaded
    /\ SharedEntriesAgree
    /\ DistinctTimes(panel.enhancedMessages)
    /\ panel.loaded # <<>>
    /\ Len(panel.enhancedMessages) = 2
    /\ IdsOf(panel.messages) # IdsOf(panel.enhancedMessages)
    /\ \E i \in 1..2 : panel.enhancedMessages[i].replyToMessage # <<>>
    /\ Reloaded = panel.enhancedMessages

\* C9 as stated: the record of a session holds only messages that were in
\* the live list, or in that session's record when the panel loaded it,
\* while the session was the panel's.
C9_SessionIsolation ==
    \A s \in Sessions : IdsOf(Stored(store, s)) \subseteq seen[s]

=============================================================================
